---- MODULE Spec2Model ----
\* Model of the model-lifecycle orchestrator (app/services/model_service.py),
\* the trainable units (app/ml) and the experiment-tracking side-channel
\* (app/services/clearml_service.py).
\*
\* Every public method of ModelService is one action.  The HTTP routes and
\* the gRPC servicer each construct their own ModelService over the same
\* models directory, so the in-memory metadata is kept per instance while the
\* artifact files and metadata.json are shared.
\*
\* The dataset repository (app/services/dataset_service.py) and the versioning
\* side-channel (app/services/dvc_service.py) work on the datasets directory;
\* the transport handlers (app/api/routes, app/grpc_service/server.py) resolve
\* the dataset, call the orchestrator and map what it raises to a status.
\*
\* Spec        one orchestrator (the HTTP one), calls one after another, every
\*             environment fault (tracking steps, artifact write, metadata
\*             write), requests that reach the orchestrator
\* SpecShared  both transports over the same directories, no faults, every
\*             shape of request
\* SpecData    the dataset repository and the versioning side-channel, from an
\*             empty datasets directory
EXTENDS Integers, Sequences, FiniteSets, TLC

VARIABLES
    artifacts,      \* models_dir/<name>.joblib : content of each artifact file
    metadata_file,  \* models_dir/metadata.json
    metadata,       \* ModelService._metadata of each instance
    enabled,        \* ClearMLService.enabled, computed from the shared settings
    lastCall,       \* the call whose handler has just run: its inputs and what
                    \* it returns; NoCall once the result is handed to the caller
    twin,           \* what that same call returns and leaves behind when made
                    \* from the same stores with the tracking channel disabled
    deleted,        \* per instance: names deleted through it and not written since
    nops,           \* number of completed calls
    files,          \* datasets_dir: content of each existing file, by path
    dvc_enabled,    \* DVCService.enabled, computed at construction
    reply,          \* what the handler that has just run hands to its caller
    threads,        \* per worker of the gRPC server's pool: the call it is
                    \* carrying out, its position in it and its locals
    trial           \* one unit exercised on its own: data, estimator, outputs

vars == <<artifacts, metadata_file, metadata, enabled, lastCall, twin, deleted,
          nops, files, dvc_enabled, reply, threads, trial>>

---------------------------------------------------------------------------
\* Bounds and input domains

MaxOps == 3
\* rows of the largest table a unit is trained on
Rows == 6

Instances == {"http", "grpc"}
ModelNames == {"m1", "m2"}
Datasets == {"d1", "bad"}          \* "bad": data the estimator's fit rejects
Columns == {"x", "y"}              \* the columns of every uploaded table
TrackSteps == {"open", "log", "metrics", "upload", "close"}
WriteOutcomes == {"ok", "fail_before", "fail_partial"}

\* What the environment does to one call: the tracking steps that fail (tf),
\* the outcome of the artifact write (so) and of the metadata write (mo).
\* One fault at most per call.
NoFault == [tf |-> {}, so |-> "ok", mo |-> "ok"]
Environments ==
    {NoFault}
    \cup {[NoFault EXCEPT !.tf = {s}] : s \in TrackSteps}
    \cup {[NoFault EXCEPT !.so = o] : o \in WriteOutcomes \ {"ok"}}
    \cup {[NoFault EXCEPT !.mo = o] : o \in WriteOutcomes \ {"ok"}}

MODEL_REGISTRY == {"LogisticRegression", "RandomForest"}
RequestTypes == MODEL_REGISTRY \cup {"SVM"}

\* Optional[Dict]: None, or a dict given as a set of <<key, value>> pairs
None == [given |-> FALSE, kv |-> {}]
Some(kv) == [given |-> TRUE, kv |-> kv]
HyperparameterChoices ==
    {None, Some({}), Some({<<"n_estimators", "10">>})}

Keys(kv) == {p[1] : p \in kv}

\* (X, y) as the orchestrator receives them: the table they come from and the
\* column names of X
NoData == [id |-> "", features |-> {}]

---------------------------------------------------------------------------
\* Trainable units (app/ml)

get_default_hyperparameters(T) ==
    IF T = "RandomForest"
    THEN {<<"n_estimators", "100">>, <<"max_depth", "None">>,
          <<"min_samples_split", "2">>, <<"min_samples_leaf", "1">>,
          <<"random_state", "42">>}
    ELSE {<<"C", "1.0">>, <<"max_iter", "100">>, <<"solver", "lbfgs">>,
          <<"random_state", "42">>}

\* hyperparameters or {}
OrEmpty(h) == IF h.given THEN h.kv ELSE {}

\* defaults.update(self.hyperparameters)
DictUpdate(d, u) == u \cup {p \in d : p[1] \notin Keys(u)}

\* _get_model_params: defaults merged with the unit's hyperparameters
get_model_params_NoMerge(T, hyperparameters) == hyperparameters
get_model_params(T, hyperparameters) ==
    DictUpdate(get_default_hyperparameters(T), hyperparameters)

\* The sklearn constructor takes keyword arguments only of its own signature;
\* "n_estimators" is foreign to the regression.
EstimatorAccepts(T, params) == Keys(params) \subseteq Keys(get_default_hyperparameters(T))

NoUnit == [kind |-> "none", type |-> "", hyperparameters |-> {}, params |-> {},
           is_trained |-> FALSE, data |-> NoData]
Corrupt == [NoUnit EXCEPT !.kind = "corrupt"]

\* BaseMLModel.__init__ followed by the subclass building its estimator
NewUnit(T, h) ==
    [kind |-> "unit", type |-> T, hyperparameters |-> OrEmpty(h),
     params |-> get_model_params(T, OrEmpty(h)), is_trained |-> FALSE,
     data |-> NoData]

\* <Unit>.train: fit, then is_trained = True, then the metrics on the test split
FitRaises(d) == d.id = "bad"
MetricsOf(unit, d) == <<unit.type, unit.params, d>>
NoMetrics == <<"", {}, "">>
UnitTrain(unit, d) == [unit EXCEPT !.is_trained = TRUE, !.data = d]

\* <Unit>.predict: "raise ValueError if not self.is_trained"
UnitPredict_Inverted(unit) == IF unit.is_trained THEN "NotTrained" ELSE "ok"
UnitPredict(unit) == IF ~unit.is_trained THEN "NotTrained" ELSE "ok"

\* joblib.dump opens the file for writing (truncating it) and streams the
\* pickle into it: a failure before the open leaves the file alone, a failure
\* after it leaves a file that holds no unit
joblib_dump(arts, n, unit, outcome) ==
    IF outcome = "ok" THEN [raised |-> "", arts |-> [arts EXCEPT ![n] = unit]]
    ELSE IF outcome = "fail_before" THEN [raised |-> "SaveError", arts |-> arts]
    ELSE [raised |-> "SaveError", arts |-> [arts EXCEPT ![n] = Corrupt]]
\* BaseMLModel.save: refuses an untrained unit, then dumps
save(arts, n, unit, outcome) ==
    IF ~unit.is_trained THEN [raised |-> "NotTrained", arts |-> arts]
    ELSE joblib_dump(arts, n, unit, outcome)

---------------------------------------------------------------------------
\* Experiment-tracking side-channel (app/services/clearml_service.py).
\* tf is the set of tracking steps at which the backend fails in this call.
\* Every method returns without effect when the channel is disabled and
\* swallows every error of its body.

NoTask == "None"
TaskId == "task"

create_training_task(en, tf) ==
    IF ~en THEN [raised |-> FALSE, value |-> NoTask]
    ELSE IF "open" \in tf THEN [raised |-> FALSE, value |-> NoTask]
    ELSE [raised |-> FALSE, value |-> TaskId]

log_training_progress_Raising(en, tf) ==
    [raised |-> en /\ "log" \in tf, logged |-> en /\ "log" \notin tf]
log_training_progress(en, tf) ==
    [raised |-> FALSE, logged |-> en /\ "log" \notin tf]

log_metrics(en, tf) ==
    [raised |-> FALSE, logged |-> en /\ "metrics" \notin tf]

upload_model(en, tf) ==
    [raised |-> FALSE, uploaded |-> en /\ "upload" \notin tf]

---------------------------------------------------------------------------
\* ModelService (app/services/model_service.py)

NoFile == [kind |-> "absent", map |-> <<>>]
CorruptFile == [kind |-> "corrupt", map |-> <<>>]

\* _load_metadata: {} when the file does not exist
load_metadata(file) == IF file.kind = "ok" THEN file.map ELSE <<>>

\* _save_metadata: open(metadata_file, "w") truncates, json.dump then streams
\* the whole mapping into it
save_metadata(file, md, outcome) ==
    IF outcome = "ok" THEN [raised |-> "", file |-> [kind |-> "ok", map |-> md]]
    ELSE IF outcome = "fail_before" THEN [raised |-> "MetadataWriteError", file |-> file]
    ELSE [raised |-> "MetadataWriteError", file |-> CorruptFile]

\* self._metadata[model_name] = {...}
PutRecord(md, n, rec) ==
    [k \in DOMAIN md \cup {n} |-> IF k = n THEN rec ELSE md[k]]
\* del self._metadata[model_name]
DelRecord(md, n) == [k \in DOMAIN md \ {n} |-> md[k]]

\* the record train_model writes (created_at, a wall-clock stamp, is left out)
ModelRecord(T, metrics, h, tid) ==
    [type |-> T, metrics |-> metrics, hyperparameters |-> OrEmpty(h),
     clearml_task_id |-> tid]

\* What a call returns and leaves behind
Outcome(result, tid, metrics, md, arts, file, opened, closed, uploaded) ==
    [result |-> result, tid |-> tid, metrics |-> metrics, md |-> md,
     arts |-> arts, file |-> file, opened |-> opened, closed |-> closed,
     uploaded |-> uploaded]

\* lines 115-134: create_training_task and the first progress message sit in
\* one try/except, entered only when the channel is enabled; the id assigned
\* before an error of the message survives it
OpenRun(en, tf) ==
    IF ~en THEN [raised |-> FALSE, tid |-> NoTask]
    ELSE LET c == create_training_task(en, tf)
         IN  [raised |-> FALSE, tid |-> IF c.raised THEN NoTask ELSE c.value]

\* lines 157-193: metrics, final message, upload and close inside one
\* try/except; the close has a try/except of its own
FinishRun_Propagating(en, tf) ==
    [raised |-> tf \cap {"metrics", "upload", "close"} # {},
     uploaded |-> FALSE, closed |-> FALSE]
FinishRun(en, tf) ==
    LET m == log_metrics(en, tf)
        p == log_training_progress(en, tf)
        u == upload_model(en, tf)
        reached == ~m.raised /\ ~p.raised /\ ~u.raised
    IN  [raised |-> FALSE,
         uploaded |-> ~m.raised /\ ~p.raised /\ u.uploaded,
         closed |-> reached /\ "close" \notin tf]

\* line 109: model_type not in MODEL_REGISTRY
IsRegistered_Missing(T) == TRUE
IsRegistered(T) == T \in MODEL_REGISTRY

train_model(md, arts, file, en, T, n, d, h, tf, so, mo) ==
    LET fail(res, tid) ==
            Outcome(res, tid, NoMetrics, md, arts, file, tid # NoTask, FALSE, FALSE)
    IN
    IF ~IsRegistered(T) THEN fail("UnknownCapability", NoTask)
    ELSE
    LET run == OpenRun(en, tf)
        tid == run.tid
    IN
    IF run.raised THEN fail("TrackingError", tid)
    ELSE IF ~EstimatorAccepts(T, get_model_params(T, OrEmpty(h)))
         THEN fail("ConstructError", tid)
    ELSE IF tid # NoTask /\ log_training_progress(en, tf).raised
         THEN fail("TrackingError", tid)
    ELSE IF FitRaises(d) THEN fail("FitError", tid)
    ELSE
    LET model == UnitTrain(NewUnit(T, h), d)
        metrics == MetricsOf(model, d)
        saved == save(arts, n, model, so)
    IN
    IF saved.raised # ""
    THEN Outcome(saved.raised, tid, NoMetrics, md, saved.arts, file,
                 tid # NoTask, FALSE, FALSE)
    ELSE
    LET fin == IF tid # NoTask THEN FinishRun(en, tf)
               ELSE [raised |-> FALSE, uploaded |-> FALSE, closed |-> FALSE]
    IN
    IF fin.raised
    THEN Outcome("TrackingError", tid, NoMetrics, md, saved.arts, file,
                 tid # NoTask, fin.closed, fin.uploaded)
    ELSE
    LET md2 == PutRecord(md, n, ModelRecord(T, metrics, h, tid))
        wr == save_metadata(file, md2, mo)
    IN  Outcome(IF wr.raised = "" THEN "ok" ELSE wr.raised, tid,
                IF wr.raised = "" THEN metrics ELSE NoMetrics,
                md2, saved.arts, wr.file, tid # NoTask, fin.closed, fin.uploaded)

\* retrain_model: hyperparameters fall back to the record's only when None
RetrainHyperparameters_IfFalsy(rec, h) ==
    IF h.given /\ h.kv # {} THEN h ELSE Some(rec.hyperparameters)
RetrainHyperparameters(rec, h) ==
    IF ~h.given THEN Some(rec.hyperparameters) ELSE h

retrain_model_TrainsWhenMissing(md, arts, file, en, n, d, h, tf, so, mo) ==
    IF n \notin DOMAIN md
    THEN train_model(md, arts, file, en, "LogisticRegression", n, d, h, tf, so, mo)
    ELSE train_model(md, arts, file, en, md[n].type, n, d,
                     RetrainHyperparameters(md[n], h), tf, so, mo)
retrain_model(md, arts, file, en, n, d, h, tf, so, mo) ==
    IF n \notin DOMAIN md
    THEN Outcome("NotFound", NoTask, NoMetrics, md, arts, file, FALSE, FALSE, FALSE)
    ELSE train_model(md, arts, file, en, md[n].type, n, d,
                     RetrainHyperparameters(md[n], h), tf, so, mo)

\* delete_model: the artifact decides; the record goes only after the unlink
delete_model_KeepRecord(md, arts, file, n, mo) ==
    IF arts[n].kind = "none"
    THEN Outcome("NotFound", NoTask, NoMetrics, md, arts, file, FALSE, FALSE, FALSE)
    ELSE Outcome("ok", NoTask, NoMetrics, md, [arts EXCEPT ![n] = NoUnit], file,
                 FALSE, FALSE, FALSE)
delete_model(md, arts, file, n, mo) ==
    IF arts[n].kind = "none"
    THEN Outcome("NotFound", NoTask, NoMetrics, md, arts, file, FALSE, FALSE, FALSE)
    ELSE LET arts2 == [arts EXCEPT ![n] = NoUnit]
         IN  IF n \in DOMAIN md
             THEN LET md2 == DelRecord(md, n)
                      wr == save_metadata(file, md2, mo)
                  IN  Outcome(IF wr.raised = "" THEN "ok" ELSE wr.raised, NoTask,
                              NoMetrics, md2, arts2, wr.file, FALSE, FALSE, FALSE)
             ELSE Outcome("ok", NoTask, NoMetrics, md, arts2, file,
                          FALSE, FALSE, FALSE)

\* load_model followed by the unit's predict, as both transports call them
load_model(arts, n) ==
    IF arts[n].kind = "none" THEN "NotFound"
    ELSE IF arts[n].kind = "corrupt" THEN "LoadError"
    ELSE "ok"
predict(arts, n) ==
    IF load_model(arts, n) # "ok" THEN load_model(arts, n)
    ELSE UnitPredict(arts[n])

\* list_models: one entry per record of the in-memory metadata
list_models(md) == DOMAIN md

---------------------------------------------------------------------------
\* Dataset repository (app/services/dataset_service.py) and versioning
\* side-channel (app/services/dvc_service.py)
\*
\* A path below datasets_dir is the sequence of the dot-separated parts of its
\* file name: <<"d1", "csv">> is d1.csv, <<"d1", "csv", "dvc">> its sidecar.

DatasetNames == {<<"d1">>, <<"d1", "csv">>, <<"d1", "json">>, <<"d2">>}
ToolOutcomes == {"zero", "nonzero", "timeout", "oserror"}

\* name.endswith("." + ext)
endswith(name, ext) == Len(name) >= 2 /\ name[Len(name)] = ext
\* Path.suffix, without the dot
suffix(path) == IF Len(path) >= 2 THEN path[Len(path)] ELSE ""
\* f"{name}{ext}"
WithExt(name, ext) == Append(name, ext)
\* path.with_suffix(path.suffix + ".dvc")
dvc_file(path) == Append(path, "dvc")

\* file contents: a table written by to_csv / to_json, what an interrupted
\* write leaves, the sidecar the tool writes for a data file
Frame(c) == [kind |-> "frame", id |-> c, columns |-> Columns]
Garbage == [kind |-> "garbage", id |-> "", columns |-> {}]
SidecarOf(content) == [kind |-> "sidecar", id |-> content.id, columns |-> {}]
EmptyDir == <<>>

WriteFile(fs, path, content) ==
    [q \in DOMAIN fs \cup {path} |-> IF q = path THEN content ELSE fs[q]]
Unlink(fs, path) == [q \in DOMAIN fs \ {path} |-> fs[q]]

\* pd.read_csv / pd.read_json
Parses(content) == content.kind = "frame"

NoPath == [found |-> FALSE, path |-> <<>>]
\* _find_dataset_file: the exact name, then name.csv, then name.json
find_dataset_file_ExactOnly(fs, name) ==
    IF name \in DOMAIN fs THEN [found |-> TRUE, path |-> name] ELSE NoPath
find_dataset_file(fs, name) ==
    IF name \in DOMAIN fs THEN [found |-> TRUE, path |-> name]
    ELSE IF ~endswith(name, "csv") /\ WithExt(name, "csv") \in DOMAIN fs
    THEN [found |-> TRUE, path |-> WithExt(name, "csv")]
    ELSE IF ~endswith(name, "json") /\ WithExt(name, "json") \in DOMAIN fs
    THEN [found |-> TRUE, path |-> WithExt(name, "json")]
    ELSE NoPath

\* load_dataset
load_dataset(fs, name) ==
    LET f == find_dataset_file(fs, name)
    IN  IF ~f.found THEN [raised |-> "DatasetNotFound", frame |-> Garbage]
        ELSE IF ~Parses(fs[f.path]) THEN [raised |-> "ParseError", frame |-> Garbage]
        ELSE [raised |-> "", frame |-> fs[f.path]]

\* Optional rows / columns of a DatasetInfo
Absent == [given |-> FALSE, v |-> {}]
Present(v) == [given |-> TRUE, v |-> v]
NoInfo == [name |-> <<>>, size |-> "", rows |-> Absent, columns |-> Absent,
           uploaded_at |-> ""]
DatasetInfo(name, size, rows, columns, uploaded_at) ==
    [name |-> name, size |-> size, rows |-> rows, columns |-> columns,
     uploaded_at |-> uploaded_at]

\* get_dataset_info: stat of the resolved file, then a parse whose failure
\* leaves rows and columns None
get_dataset_info_Raising(fs, name) ==
    LET f == find_dataset_file(fs, name)
    IN  IF ~f.found THEN [raised |-> "DatasetNotFound", info |-> NoInfo]
        ELSE IF ~Parses(fs[f.path]) THEN [raised |-> "ParseError", info |-> NoInfo]
        ELSE [raised |-> "",
              info |-> DatasetInfo(f.path, "st_size", Present({fs[f.path].id}),
                                   Present(fs[f.path].columns), "st_mtime")]
get_dataset_info(fs, name) ==
    LET f == find_dataset_file(fs, name)
    IN  IF ~f.found THEN [raised |-> "DatasetNotFound", info |-> NoInfo]
        ELSE LET parsed == Parses(fs[f.path])
                 rows == IF parsed THEN Present({fs[f.path].id}) ELSE Absent
                 columns == IF parsed THEN Present(fs[f.path].columns) ELSE Absent
             IN  [raised |-> "",
                  info |-> DatasetInfo(f.path, "st_size", rows, columns, "st_mtime")]

\* list_datasets: the directory is enumerated (fs0), then each file with a
\* recognized extension is looked up by its name in the directory as it is by
\* then (fs); a lookup that raises is logged and skipped
Recognized(fs) == {q \in DOMAIN fs : suffix(q) \in {"csv", "json"}}
list_datasets_Unguarded(fs0, fs) ==
    [raised |-> IF \E q \in Recognized(fs0) : get_dataset_info(fs, q).raised # ""
                THEN "DatasetNotFound" ELSE "",
     infos |-> {get_dataset_info(fs, q).info : q \in Recognized(fs0)}]
list_datasets(fs0, fs) ==
    [raised |-> "",
     infos |-> {get_dataset_info(fs, q).info :
                  q \in {q1 \in Recognized(fs0) : get_dataset_info(fs, q1).raised = ""}}]

\* delete_dataset: unlinks the resolved file, and its sidecar when it exists
delete_dataset_AllSidecars(fs, name) ==
    LET f == find_dataset_file(fs, name)
    IN  IF ~f.found THEN [raised |-> "DatasetNotFound", files |-> fs]
        ELSE [raised |-> "",
              files |-> [q \in {q1 \in DOMAIN fs : q1 # f.path /\ suffix(q1) # "dvc"}
                           |-> fs[q]]]
delete_dataset(fs, name) ==
    LET f == find_dataset_file(fs, name)
    IN  IF ~f.found THEN [raised |-> "DatasetNotFound", files |-> fs]
        ELSE LET fs1 == Unlink(fs, f.path)
             IN  [raised |-> "",
                  files |-> IF dvc_file(f.path) \in DOMAIN fs1
                            THEN Unlink(fs1, dvc_file(f.path)) ELSE fs1]

\* DVCService: each method returns False at once when the tool is unavailable,
\* otherwise runs the tool inside try/except; out is what subprocess.run does
\* (exit 0, another exit code, TimeoutExpired, any other error).  invoked: the
\* tool was started.
add_dataset_Raising(en, fs, name, out) ==
    [raised |-> en /\ name \in DOMAIN fs /\ out \in {"timeout", "oserror"},
     value |-> en /\ name \in DOMAIN fs /\ out # "nonzero",
     invoked |-> en /\ name \in DOMAIN fs,
     files |-> IF en /\ name \in DOMAIN fs /\ out = "zero"
               THEN WriteFile(fs, dvc_file(name), SidecarOf(fs[name])) ELSE fs]
add_dataset(en, fs, name, out) ==
    IF ~en THEN [raised |-> FALSE, value |-> FALSE, invoked |-> FALSE, files |-> fs]
    ELSE IF name \notin DOMAIN fs
    THEN [raised |-> FALSE, value |-> FALSE, invoked |-> FALSE, files |-> fs]
    ELSE IF out = "zero"
    THEN [raised |-> FALSE, value |-> TRUE, invoked |-> TRUE,
          files |-> WriteFile(fs, dvc_file(name), SidecarOf(fs[name]))]
    ELSE [raised |-> FALSE, value |-> FALSE, invoked |-> TRUE, files |-> fs]

push_dataset(en, fs, name, out) ==
    IF ~en THEN [raised |-> FALSE, value |-> FALSE, invoked |-> FALSE, files |-> fs]
    ELSE [raised |-> FALSE, value |-> out = "zero", invoked |-> TRUE, files |-> fs]

\* pull_dataset: a zero exit has checked the data file out of the cache
pull_dataset(en, fs, name, out) ==
    IF ~en THEN [raised |-> FALSE, value |-> FALSE, invoked |-> FALSE, files |-> fs]
    ELSE IF out = "zero"
    THEN [raised |-> FALSE, value |-> TRUE, invoked |-> TRUE,
          files |-> IF dvc_file(name) \in DOMAIN fs /\ fs[dvc_file(name)].id # ""
                    THEN WriteFile(fs, name, Frame(fs[dvc_file(name)].id)) ELSE fs]
    ELSE [raised |-> FALSE, value |-> FALSE, invoked |-> TRUE, files |-> fs]

\* _upload_to_s3_via_dvc: add, then push when add returned True; whatever is
\* raised inside is logged.  trace: the tool commands started, in order.
upload_to_s3_via_dvc_PushAlways(en, fs, name, tool) ==
    IF ~en THEN [raised |-> FALSE, files |-> fs, trace |-> <<>>, added |-> FALSE]
    ELSE LET a == add_dataset(en, fs, name, tool.add)
         IN  [raised |-> FALSE, files |-> a.files,
              trace |-> (IF a.invoked THEN <<"add">> ELSE <<>>) \o <<"push">>,
              added |-> a.value]
upload_to_s3_via_dvc(en, fs, name, tool) ==
    IF ~en THEN [raised |-> FALSE, files |-> fs, trace |-> <<>>, added |-> FALSE]
    ELSE LET a == add_dataset(en, fs, name, tool.add)
             t1 == IF a.invoked THEN <<"add">> ELSE <<>>
         IN  IF a.raised
             THEN [raised |-> FALSE, files |-> a.files, trace |-> t1, added |-> FALSE]
             ELSE IF a.value
             THEN LET u == push_dataset(en, a.files, name, tool.push)
                  IN  [raised |-> FALSE, files |-> u.files,
                       trace |-> IF u.invoked THEN t1 \o <<"push">> ELSE t1,
                       added |-> TRUE]
             ELSE [raised |-> FALSE, files |-> a.files, trace |-> t1, added |-> FALSE]

\* the file save_dataset writes for a name: name itself when it ends in .json
\* or .csv, name.csv otherwise
SavePath(name) ==
    IF endswith(name, "json") \/ endswith(name, "csv") THEN name
    ELSE WithExt(name, "csv")

\* to_csv / to_json open the file for writing (truncating it) and stream
WriteTable(fs, path, c, wo) ==
    IF wo = "ok" THEN [raised |-> "", files |-> WriteFile(fs, path, Frame(c))]
    ELSE IF wo = "fail_before" THEN [raised |-> "WriteError", files |-> fs]
    ELSE [raised |-> "WriteError", files |-> WriteFile(fs, path, Garbage)]

\* save_dataset: write, version, then the record of the file just written
save_dataset(fs, en, name, c, wo, tool) ==
    LET path == SavePath(name)
        w == WriteTable(fs, path, c, wo)
    IN  IF w.raised # ""
        THEN [raised |-> w.raised, files |-> w.files, info |-> NoInfo,
              trace |-> <<>>, added |-> FALSE]
        ELSE LET up == upload_to_s3_via_dvc(en, w.files, path, tool)
                 gi == get_dataset_info(up.files, path)
             IN  IF up.raised
                 THEN [raised |-> "DvcError", files |-> up.files, info |-> NoInfo,
                       trace |-> up.trace, added |-> up.added]
                 ELSE [raised |-> gi.raised, files |-> up.files, info |-> gi.info,
                       trace |-> up.trace, added |-> up.added]

---------------------------------------------------------------------------
\* Transport handlers (app/api/routes/models.py, app/grpc_service/server.py)

\* the rows of a predict request carry the column names seen at fit time, or not
estimator_predict(unit, cols) ==
    IF cols # unit.data.features THEN "FeatureMismatch" ELSE "ok"
predict_rows(arts, n, cols) ==
    IF predict(arts, n) # "ok" THEN predict(arts, n)
    ELSE estimator_predict(arts[n], cols)

\* the Python class of what a failed step raises
ExcClass(result) ==
    IF result \in {"NotFound", "DatasetNotFound"} THEN "FileNotFoundError"
    ELSE IF result \in {"UnknownCapability", "FitError", "NotTrained",
                        "FeatureMismatch", "ParseError"} THEN "ValueError"
    ELSE IF result = "MissingTarget" THEN "HTTPException"
    ELSE "Exception"

\* the except chains of the HTTP routes; an HTTPException raised inside the
\* try block is an Exception like any other
http_train_status(result) ==
    IF result = "ok" THEN "201"
    ELSE IF ExcClass(result) = "FileNotFoundError" THEN "404"
    ELSE IF ExcClass(result) = "ValueError" THEN "400"
    ELSE "500"
http_retrain_status(result) ==
    IF result = "ok" THEN "200"
    ELSE IF ExcClass(result) = "FileNotFoundError" THEN "404"
    ELSE "500"
http_predict_status(result) ==
    IF result = "ok" THEN "200"
    ELSE IF ExcClass(result) = "FileNotFoundError" THEN "404"
    ELSE IF ExcClass(result) = "ValueError" THEN "400"
    ELSE "500"
http_delete_status(result) ==
    IF result = "ok" THEN "200"
    ELSE IF ExcClass(result) = "FileNotFoundError" THEN "404"
    ELSE "500"

\* the servicer: a missing target column sets INVALID_ARGUMENT and returns,
\* FileNotFoundError is NOT_FOUND, every other exception INTERNAL
grpc_status(result) ==
    IF result = "ok" THEN "OK"
    ELSE IF result = "MissingTarget" THEN "INVALID_ARGUMENT"
    ELSE IF ExcClass(result) = "FileNotFoundError" THEN "NOT_FOUND"
    ELSE "INTERNAL"

Status(i, op, result) ==
    IF i = "grpc" THEN grpc_status(result)
    ELSE IF op = "train" THEN http_train_status(result)
    ELSE IF op = "retrain" THEN http_retrain_status(result)
    ELSE IF op = "predict" THEN http_predict_status(result)
    ELSE http_delete_status(result)

\* the error taxonomy a status stands for
Taxonomy(status) ==
    IF status \in {"200", "201", "OK"} THEN "Success"
    ELSE IF status \in {"400", "INVALID_ARGUMENT"} THEN "InvalidInput"
    ELSE IF status \in {"404", "NOT_FOUND"} THEN "NotFound"
    ELSE "Internal"

\* load_dataset, the target column test, and the split into X and y
ResolveTraining(fs, req) ==
    LET ds == load_dataset(fs, req.dataset)
    IN  IF ds.raised # "" THEN [result |-> ds.raised, data |-> NoData]
        ELSE IF req.target \notin ds.frame.columns
        THEN [result |-> "MissingTarget", data |-> NoData]
        ELSE [result |-> "ok",
              data |-> [id |-> ds.frame.id,
                        features |-> ds.frame.columns \ {req.target}]]

NotInvoked(result, md, arts, file) ==
    Outcome(result, NoTask, NoMetrics, md, arts, file, FALSE, FALSE, FALSE)

\* the body of the train handlers up to the orchestrator's return
TrainHandler(fs, md, arts, file, en, T, n, req, h, env) ==
    LET pre == ResolveTraining(fs, req)
    IN  IF pre.result # "ok"
        THEN [out |-> NotInvoked(pre.result, md, arts, file), invoked |-> FALSE,
              data |-> NoData]
        ELSE [out |-> train_model(md, arts, file, en, T, n, pre.data, h,
                                  env.tf, env.so, env.mo),
              invoked |-> TRUE, data |-> pre.data]

\* the body of the retrain handlers up to the orchestrator's return
RetrainHandler(fs, md, arts, file, en, n, req, h, env) ==
    LET pre == ResolveTraining(fs, req)
    IN  IF pre.result # "ok"
        THEN [out |-> NotInvoked(pre.result, md, arts, file), invoked |-> FALSE,
              data |-> NoData]
        ELSE [out |-> retrain_model(md, arts, file, en, n, pre.data, h,
                                    env.tf, env.so, env.mo),
              invoked |-> TRUE, data |-> pre.data]

\* model_type of a successful response: the routes and TrainModel echo the
\* request, RetrainModel reads the record back
ReportedType(i, op, T, rtype, md, n) ==
    IF op = "train" THEN T
    ELSE IF i = "http" THEN rtype
    ELSE IF n \in DOMAIN md THEN md[n].type ELSE "Unknown"

---------------------------------------------------------------------------
\* State machine

NoCall ==
    [op |-> "none", inst |-> "", name |-> "", type |-> "", hp |-> None,
     data |-> NoData, env |-> NoFault, result |-> "", tid |-> NoTask,
     metrics |-> NoMetrics, opened |-> FALSE, closed |-> FALSE,
     uploaded |-> FALSE, hadRecord |-> FALSE, hadArtifact |-> FALSE,
     listed |-> {}]

NoTwin ==
    Outcome("", NoTask, NoMetrics, load_metadata(NoFile),
            [n \in ModelNames |-> NoUnit], NoFile, FALSE, FALSE, FALSE)

\* the request a handler was given beyond what lastCall holds, and its response
NoReply ==
    [op |-> "", status |-> "", model_type |-> "", invoked |-> FALSE,
     dataset |-> <<>>, target |-> "", rtype |-> "", cols |-> {}, content |-> "",
     raised |-> "", info |-> NoInfo, infos |-> {}, frame |-> Garbage,
     trace |-> <<>>, added |-> FALSE, value |-> FALSE, started |-> FALSE,
     env |-> [wo |-> "ok", add |-> "zero", push |-> "zero"], out |-> "",
     lost |-> {}]

\* the datasets directory after d1.csv and bad.csv were uploaded
SeededDir ==
    WriteFile(WriteFile(EmptyDir, <<"d1", "csv">>, Frame("d1")),
              <<"bad", "csv">>, Frame("bad"))

\* train and retrain requests: the dataset named and the target column
WellFormed == {[dataset |-> <<c>>, target |-> "y"] : c \in Datasets}
TrainingRequests ==
    WellFormed \cup {[dataset |-> <<"d1">>, target |-> "z"],
                     [dataset |-> <<"nodata">>, target |-> "y"]}

\* what the callers of a specification send and what the environment does
Orchestrated ==
    [envs |-> Environments, reqs |-> WellFormed, rtypes |-> {"RandomForest"},
     cols |-> {{"x"}}]
AnyRequest ==
    [envs |-> {NoFault}, reqs |-> TrainingRequests, rtypes |-> MODEL_REGISTRY,
     cols |-> {{"x"}, {"w"}}]

\* no call in progress: calls do not overlap
Idle == lastCall.op = "none" /\ reply.op = "" /\ nops < MaxOps

\* The pool of the gRPC server: its workers run handlers concurrently on the
\* one ModelService of the servicer
Workers == 1..2
Pool == "grpc"

\* a worker with no call: pc is its position, fd the state of the artifact
\* file it holds open, buffer what json.dump has put into its file object,
\* trace the steps of the training procedure that have taken place, overlap
\* (of a predict) the operations of other workers that changed its name's
\* artifact meanwhile
NoThread ==
    [pc |-> "idle", op |-> "", name |-> "", type |-> "", tf |-> {},
     tid |-> NoTask, unit |-> NoUnit, metrics |-> NoMetrics, fd |-> "",
     buffer |-> <<>>, trace |-> <<>>, result |-> "", sawFile |-> FALSE,
     overlap |-> {}]

---------------------------------------------------------------------------
\* One trainable unit on its own (app/ml/logistic_regression.py,
\* app/ml/random_forest.py), as tests/test_models.py exercises it: train(X, y),
\* then predict on the first k rows of X.  The sklearn estimator is taken by
\* its contract: fit learns some classifier over the classes of the training
\* target, predict gives one of those classes for every row and rejects an
\* input of no rows.

Classes == {"a", "b"}
RowsOf(n) == 1..n

\* fractions <<numerator, denominator>>
Q(a, b) == <<a, b>>
QAdd(p, q) == Q(p[1] * q[2] + q[1] * p[2], p[2] * q[2])
QMul(p, q) == Q(p[1] * q[1], p[2] * q[2])
InUnitInterval(q) == q[2] > 0 /\ 0 <= q[1] /\ q[1] <= q[2]

\* train_test_split(X, y, test_size=0.2, random_state=42): ceil(0.2 n) rows
\* go to the test part, n_train = 0 is an error
TestSize(n) == (n + 4) \div 5
train_test_split(n) ==
    IF n - TestSize(n) <= 0 THEN {}
    ELSE {S \in SUBSET RowsOf(n) : Cardinality(S) = TestSize(n)}

ClassesOf(y, rows) == {y[i] : i \in rows}

\* model.fit(X_train, y_train): the regression needs two classes; the fitted
\* estimator is some function from rows to the classes it has seen
FitError(T, y, train) ==
    T = "LogisticRegression" /\ Cardinality(ClassesOf(y, train)) < 2
Fitted(n, y, train) == [RowsOf(n) -> ClassesOf(y, train)]

\* per class, on the test rows: true positives, predicted, support
TP(y, est, test, c) == Cardinality({i \in test : y[i] = c /\ est[i] = c})
PP(est, test, c) == Cardinality({i \in test : est[i] = c})
Support(y, test, c) == Cardinality({i \in test : y[i] = c})

\* zero_division=0: a score with denominator 0 is 0
Ratio(a, b) == IF b = 0 THEN Q(0, 1) ELSE Q(a, b)
precision_of(y, est, test, c) == Ratio(TP(y, est, test, c), PP(est, test, c))
recall_of(y, est, test, c) == Ratio(TP(y, est, test, c), Support(y, test, c))
f1_of(y, est, test, c) ==
    Ratio(2 * TP(y, est, test, c), PP(est, test, c) + Support(y, test, c))

\* average="weighted": the per-class scores weighted by support / n_test
RECURSIVE WeightedSum(_, _, _, _)
WeightedSum(score, y, test, cs) ==
    IF cs = {} THEN Q(0, 1)
    ELSE LET c == CHOOSE x \in cs : TRUE
         IN  QAdd(QMul(Q(Support(y, test, c), Cardinality(test)), score[c]),
                  WeightedSum(score, y, test, cs \ {c}))
weighted_average_Sum(score, y, est, test) ==
    WeightedSum([c \in Classes |-> QMul(Q(Cardinality(test), 1), score[c])], y, test,
                ClassesOf(y, test) \cup ClassesOf(est, test))
weighted_average(score, y, est, test) ==
    WeightedSum(score, y, test, ClassesOf(y, test) \cup ClassesOf(est, test))

accuracy_score(y, est, test) ==
    Q(Cardinality({i \in test : y[i] = est[i]}), Cardinality(test))
precision_score(y, est, test) ==
    weighted_average([c \in Classes |-> precision_of(y, est, test, c)], y, est, test)
recall_score(y, est, test) ==
    weighted_average([c \in Classes |-> recall_of(y, est, test, c)], y, est, test)
f1_score(y, est, test) ==
    weighted_average([c \in Classes |-> f1_of(y, est, test, c)], y, est, test)

\* the metrics dict of <Unit>.train
Metrics(y, est, test) ==
    [k \in {"accuracy", "precision", "recall", "f1"} |->
       IF k = "accuracy" THEN accuracy_score(y, est, test)
       ELSE IF k = "precision" THEN precision_score(y, est, test)
       ELSE IF k = "recall" THEN recall_score(y, est, test)
       ELSE f1_score(y, est, test)]

\* self.model.predict(X) on the first k rows: sklearn's input validation
\* raises ValueError for an array of 0 samples
sklearn_predict(est, k) ==
    IF k = 0 THEN [raised |-> "EmptyInput", labels |-> <<>>]
    ELSE [raised |-> "", labels |-> [i \in 1..k |-> est[i]]]

NoTrial ==
    [phase |-> "none", type |-> "", n |-> 0, y |-> <<>>, test |-> {},
     est |-> <<>>, is_trained |-> FALSE, metrics |-> <<>>, raised |-> "",
     k |-> 0, labels |-> <<>>]

InitStores ==
    /\ artifacts = [n \in ModelNames |-> NoUnit]
    /\ metadata_file = NoFile
    /\ metadata = [i \in Instances |-> load_metadata(NoFile)]
    /\ lastCall = NoCall
    /\ twin = NoTwin
    /\ deleted = [i \in Instances |-> {}]
    /\ nops = 0
    /\ reply = NoReply
    /\ threads = [w \in Workers |-> NoThread]
    /\ trial = NoTrial

\* the services constructed over an empty models directory and a datasets
\* directory that holds the training tables
Init ==
    /\ InitStores
    /\ enabled \in BOOLEAN
    /\ files = SeededDir
    /\ dvc_enabled = FALSE

\* the call reached the artifact write
Wrote(r) == r.result \in {"ok", "SaveError", "MetadataWriteError"}

\* r: the outcome of the call; r0: the outcome of its twin; rp: the reply
Apply(i, op, n, T, h, d, env, r, r0, rp) ==
    /\ artifacts' = r.arts
    /\ metadata_file' = r.file
    /\ metadata' = [metadata EXCEPT ![i] = r.md]
    /\ lastCall' =
         [op |-> op, inst |-> i, name |-> n, type |-> T, hp |-> h, data |-> d,
          env |-> env, result |-> r.result, tid |-> r.tid, metrics |-> r.metrics,
          opened |-> r.opened, closed |-> r.closed, uploaded |-> r.uploaded,
          hadRecord |-> n \in DOMAIN metadata[i],
          hadArtifact |-> artifacts[n].kind # "none", listed |-> {}]
    /\ twin' = r0
    /\ deleted' =
         IF op = "delete" /\ r.result = "ok"
         THEN [deleted EXCEPT ![i] = @ \cup {n}]
         ELSE IF op \in {"train", "retrain"} /\ Wrote(r)
         THEN [j \in Instances |-> deleted[j] \ {n}]
         ELSE deleted
    /\ nops' = nops + 1
    /\ reply' = [rp EXCEPT !.op = op, !.status = Status(i, op, r.result)]
    /\ UNCHANGED <<enabled, files, dvc_enabled, threads, trial>>

Train(i, P) ==
    /\ Idle
    /\ \E T \in RequestTypes, n \in ModelNames, req \in P.reqs,
          h \in HyperparameterChoices, env \in P.envs :
          LET hd == TrainHandler(files, metadata[i], artifacts, metadata_file,
                                 enabled, T, n, req, h, env)
              h0 == TrainHandler(files, metadata[i], artifacts, metadata_file,
                                 FALSE, T, n, req, h, [env EXCEPT !.tf = {}])
          IN  Apply(i, "train", n, T, h, hd.data, env, hd.out, h0.out,
                    [NoReply EXCEPT
                       !.dataset = req.dataset, !.target = req.target,
                       !.invoked = hd.invoked,
                       !.model_type =
                           IF hd.out.result = "ok"
                           THEN ReportedType(i, "train", T, "", hd.out.md, n)
                           ELSE ""])

Retrain(i, P) ==
    /\ Idle
    /\ \E n \in ModelNames, req \in P.reqs, h \in HyperparameterChoices,
          env \in P.envs, rt \in (IF i = "http" THEN P.rtypes ELSE {""}) :
          LET hd == RetrainHandler(files, metadata[i], artifacts, metadata_file,
                                   enabled, n, req, h, env)
              h0 == RetrainHandler(files, metadata[i], artifacts, metadata_file,
                                   FALSE, n, req, h, [env EXCEPT !.tf = {}])
          IN  Apply(i, "retrain", n, "", h, hd.data, env, hd.out, h0.out,
                    [NoReply EXCEPT
                       !.dataset = req.dataset, !.target = req.target,
                       !.rtype = rt, !.invoked = hd.invoked,
                       !.model_type =
                           IF hd.out.result = "ok"
                           THEN ReportedType(i, "retrain", "", rt, hd.out.md, n)
                           ELSE ""])

Delete(i, P) ==
    /\ Idle
    /\ \E n \in ModelNames, mo \in {env.mo : env \in P.envs} :
          LET r == delete_model(metadata[i], artifacts, metadata_file, n, mo)
          IN  Apply(i, "delete", n, "", None, NoData, [NoFault EXCEPT !.mo = mo],
                    r, r, [NoReply EXCEPT !.invoked = TRUE])

Predict(i, P) ==
    /\ Idle
    /\ \E n \in ModelNames, cols \in P.cols :
          LET r == Outcome(predict_rows(artifacts, n, cols), NoTask, NoMetrics,
                           metadata[i], artifacts, metadata_file,
                           FALSE, FALSE, FALSE)
          IN  Apply(i, "predict", n, "", None, NoData, NoFault, r, r,
                    [NoReply EXCEPT !.invoked = TRUE, !.cols = cols])

List(i) ==
    /\ Idle
    /\ lastCall' = [NoCall EXCEPT !.op = "list", !.inst = i, !.result = "ok",
                                  !.listed = list_models(metadata[i])]
    /\ twin' = Outcome("ok", NoTask, NoMetrics, metadata[i], artifacts,
                       metadata_file, FALSE, FALSE, FALSE)
    /\ nops' = nops + 1
    /\ reply' = [NoReply EXCEPT !.op = "list", !.invoked = TRUE,
                                !.status = IF i = "http" THEN "200" ELSE "OK"]
    /\ UNCHANGED <<artifacts, metadata_file, metadata, enabled, deleted, files,
                   dvc_enabled, threads, trial>>

\* the handler's result goes back to the caller
Return ==
    /\ lastCall.op # "none" \/ reply.op # ""
    /\ lastCall' = NoCall
    /\ twin' = NoTwin
    /\ reply' = NoReply
    /\ UNCHANGED <<artifacts, metadata_file, metadata, enabled, deleted, nops,
                   files, dvc_enabled, threads, trial>>

Call(i, P) ==
    Train(i, P) \/ Retrain(i, P) \/ Delete(i, P) \/ Predict(i, P) \/ List(i)

\* One orchestrator instance: every call goes through the HTTP routes' service
Next == Call("http", Orchestrated) \/ Return

Spec == Init /\ [][Next]_vars

\* The HTTP routes' and the gRPC servicer's services side by side
NextShared == (\E i \in Instances : Call(i, AnyRequest)) \/ Return

SpecShared == Init /\ [][NextShared]_vars

\* What the environment does to one save: the outcome of the table write
\* (wo) and of the tool's add and push.  One fault at most per call.
NoDataFault == [wo |-> "ok", add |-> "zero", push |-> "zero"]
DataEnvironments ==
    {NoDataFault}
    \cup {[NoDataFault EXCEPT !.wo = o] : o \in WriteOutcomes \ {"ok"}}
    \cup {[NoDataFault EXCEPT !.add = o] : o \in ToolOutcomes \ {"zero"}}
    \cup {[NoDataFault EXCEPT !.push = o] : o \in ToolOutcomes \ {"zero"}}

\* a dataset operation leaves the models side alone
DataStep(fs, rp) ==
    /\ files' = fs
    /\ reply' = rp
    /\ nops' = nops + 1
    /\ UNCHANGED <<artifacts, metadata_file, metadata, enabled, lastCall, twin,
                   deleted, dvc_enabled, threads, trial>>

SaveDataset ==
    /\ Idle
    /\ \E name \in DatasetNames, c \in Datasets, env \in DataEnvironments :
          LET r == save_dataset(files, dvc_enabled, name, c, env.wo, env)
          IN  DataStep(r.files,
                       [NoReply EXCEPT !.op = "save", !.dataset = name,
                          !.content = c, !.env = env, !.raised = r.raised,
                          !.info = r.info, !.trace = r.trace, !.added = r.added])

LoadDataset ==
    /\ Idle
    /\ \E name \in DatasetNames :
          LET r == load_dataset(files, name)
          IN  DataStep(files,
                       [NoReply EXCEPT !.op = "load", !.dataset = name,
                          !.raised = r.raised, !.frame = r.frame])

GetDatasetInfo ==
    /\ Idle
    /\ \E name \in DatasetNames :
          LET r == get_dataset_info(files, name)
          IN  DataStep(files,
                       [NoReply EXCEPT !.op = "info", !.dataset = name,
                          !.raised = r.raised, !.info = r.info])

\* between the enumeration and the lookups another handler may complete a
\* delete_dataset
ListDatasets ==
    /\ Idle
    /\ \E fs \in {files} \cup {delete_dataset(files, q).files : q \in Recognized(files)} :
          LET r == list_datasets(files, fs)
          IN  DataStep(fs,
                       [NoReply EXCEPT !.op = "list_datasets", !.raised = r.raised,
                          !.infos = r.infos,
                          !.lost = Recognized(files) \ DOMAIN fs])

DeleteDataset ==
    /\ Idle
    /\ \E name \in DatasetNames :
          LET r == delete_dataset(files, name)
          IN  DataStep(r.files,
                       [NoReply EXCEPT !.op = "delete_dataset", !.dataset = name,
                          !.raised = r.raised,
                          !.lost = DOMAIN files \ DOMAIN r.files])

\* the three methods of DVCService called on their own
DvcReply(op, name, out, r) ==
    [NoReply EXCEPT !.op = op, !.dataset = name, !.out = out,
       !.raised = IF r.raised THEN "Exception" ELSE "",
       !.value = r.value, !.started = r.invoked]

AddDataset ==
    /\ Idle
    /\ \E name \in {SavePath(n) : n \in DatasetNames}, out \in ToolOutcomes :
          LET r == add_dataset(dvc_enabled, files, name, out)
          IN  DataStep(r.files, DvcReply("add", name, out, r))

PushDataset ==
    /\ Idle
    /\ \E name \in {SavePath(n) : n \in DatasetNames}, out \in ToolOutcomes :
          LET r == push_dataset(dvc_enabled, files, name, out)
          IN  DataStep(r.files, DvcReply("push", name, out, r))

PullDataset ==
    /\ Idle
    /\ \E name \in {SavePath(n) : n \in DatasetNames}, out \in ToolOutcomes :
          LET r == pull_dataset(dvc_enabled, files, name, out)
          IN  DataStep(r.files, DvcReply("pull", name, out, r))

\* the services constructed over empty directories, the versioning tool
\* available or not
InitData ==
    /\ InitStores
    /\ enabled = FALSE
    /\ files = EmptyDir
    /\ dvc_enabled \in BOOLEAN

NextData ==
    \/ SaveDataset \/ LoadDataset \/ GetDatasetInfo \/ ListDatasets
    \/ DeleteDataset \/ AddDataset \/ PushDataset \/ PullDataset \/ Return

SpecData == InitData /\ [][NextData]_vars

---------------------------------------------------------------------------
\* Concurrent calls on one ModelService (grpc_service/server.py: a pool of
\* worker threads).  Each action is one step of one worker; the steps of
\* different workers interleave freely.

\* the (X, y) every call of the pool trains on, and the tracking faults
RaceData == [id |-> "d1", features |-> {"x"}]
RaceFaults == {{}, {"upload"}}

\* the statements of train_model, delete_model and of the predict handler that
\* touch a store or the tracking backend, in program order
train_model_steps_RecordFirst ==
    <<"open", "fit", "put", "save_open", "save_dump", "log_metrics",
      "upload_model", "close", "wopen", "wdump", "wclose">>
train_model_steps ==
    <<"open", "fit", "save_open", "save_dump", "log_metrics", "upload_model",
      "close", "put", "wopen", "wdump", "wclose">>
delete_model_steps == <<"dexists", "unlink", "del", "wopen", "wdump", "wclose">>
predict_steps == <<"lexists", "load", "predict">>

Steps(op) ==
    IF op = "train" THEN train_model_steps
    ELSE IF op = "delete" THEN delete_model_steps
    ELSE predict_steps

\* the statement that follows pc; "done" after the last one, with the result
After(op, pc) ==
    LET s == Steps(op)
        i == CHOOSE k \in 1..Len(s) : s[k] = pc
    IN  IF i = Len(s) THEN "done" ELSE s[i + 1]
\* the locals of a call that has returned or raised are gone
Advance(t) ==
    IF After(t.op, t.pc) = "done"
    THEN [t EXCEPT !.pc = "done", !.result = "ok", !.unit = NoUnit, !.buffer = <<>>]
    ELSE [t EXCEPT !.pc = After(t.op, t.pc)]
Raise(t, exc) ==
    [t EXCEPT !.pc = "done", !.result = exc, !.unit = NoUnit, !.buffer = <<>>]
Did(t, step) == [t EXCEPT !.trace = Append(@, step)]

At(w, pc) == threads[w].pc = pc
InCall(t) == t.pc \notin {"idle", "done"}

\* worker w moves on without touching another worker
Step(w, t) == threads' = [threads EXCEPT ![w] = t]
\* worker w changes the artifact file of its name: a worker in a call on the
\* same name has been overlapped, and one that holds the file open for writing
\* now writes into an unlinked file (after an unlink) or shares the file with
\* another writer
Touch(w, step, t) ==
    threads' =
      [v \in Workers |->
         IF v = w THEN t
         ELSE IF InCall(threads[v]) /\ threads[v].name = threads[w].name
         THEN [threads[v] EXCEPT
                 !.overlap = IF threads[v].op = "predict"
                             THEN @ \cup {threads[w].op} ELSE @,
                 !.fd = IF threads[v].pc # "save_dump" THEN @
                        ELSE IF step = "unlink" \/ @ = "detached" THEN "detached"
                        ELSE "shared"]
         ELSE threads[v]]

\* what the race leaves alone
OutsidePool ==
    UNCHANGED <<enabled, lastCall, twin, deleted, files, dvc_enabled, reply, trial>>
KeepStores == UNCHANGED <<artifacts, metadata_file, metadata>>

\* a request arrives and the pool hands it to a free worker (the workers are
\* interchangeable: the first free one); the backend can fail only when the
\* channel is enabled
Begin(w) ==
    /\ At(w, "idle")
    /\ \A v \in Workers : v < w => ~At(v, "idle")
    /\ nops < MaxOps
    /\ \E op \in {"train", "delete", "predict"}, n \in ModelNames,
          T \in MODEL_REGISTRY, tf \in RaceFaults :
          /\ op # "train" => (T = "RandomForest" /\ tf = {})
          /\ ~enabled => tf = {}
          /\ IsRegistered(T)
          /\ Step(w, [NoThread EXCEPT !.pc = Steps(op)[1], !.op = op, !.name = n,
                                      !.type = IF op = "train" THEN T ELSE "",
                                      !.tf = tf])
    /\ nops' = nops + 1
    /\ KeepStores /\ OutsidePool

\* lines 115-134
OpenTask(w) ==
    /\ At(w, "open")
    /\ LET t == threads[w]
           run == OpenRun(enabled, t.tf)
           t1 == [t EXCEPT !.tid = run.tid]
       IN  Step(w, Advance(IF run.tid # NoTask THEN Did(t1, "open") ELSE t1))
    /\ UNCHANGED nops /\ KeepStores /\ OutsidePool

\* lines 136-145: the unit is built and trained, the metrics computed
Fit(w) ==
    /\ At(w, "fit")
    /\ LET t == threads[w]
           model == UnitTrain(NewUnit(t.type, None), RaceData)
       IN  Step(w, Advance(Did([t EXCEPT !.unit = model,
                                         !.metrics = MetricsOf(model, RaceData)],
                               "fit")))
    /\ UNCHANGED nops /\ KeepStores /\ OutsidePool

\* model.save, first half: joblib.dump opens the artifact file, truncating it
SaveOpen(w) ==
    /\ At(w, "save_open")
    /\ LET t == threads[w]
       IN  /\ artifacts' = [artifacts EXCEPT ![t.name] = Corrupt]
           /\ Touch(w, "open", Advance([t EXCEPT !.fd = "open"]))
    /\ UNCHANGED <<nops, metadata_file, metadata>> /\ OutsidePool

\* model.save, second half: the pickle is in the file the worker opened.  An
\* unlinked file takes the bytes with it; two writers of one file leave the
\* unit of the one that wrote last or a mix of both.
SaveDump(w) ==
    /\ At(w, "save_dump")
    /\ LET t == threads[w]
           t1 == Advance(Did([t EXCEPT !.fd = ""], "persist"))
       IN  /\ \E content \in (IF t.fd = "detached" THEN {artifacts[t.name]}
                              ELSE IF t.fd = "shared" THEN {t.unit, Corrupt}
                              ELSE {save(artifacts, t.name, t.unit, "ok").arts[t.name]}) :
                 artifacts' = [artifacts EXCEPT ![t.name] = content]
           /\ Touch(w, "dump", t1)
    /\ UNCHANGED <<nops, metadata_file, metadata>> /\ OutsidePool

\* lines 157-193, statement by statement; each is skipped without a task id
\* and leaves no trace when the backend fails
PushMetrics(w) ==
    /\ At(w, "log_metrics")
    /\ LET t == threads[w]
       IN  Step(w, Advance(IF t.tid # NoTask /\ log_metrics(enabled, t.tf).logged
                           THEN Did(t, "push") ELSE t))
    /\ UNCHANGED nops /\ KeepStores /\ OutsidePool

UploadArtifact(w) ==
    /\ At(w, "upload_model")
    /\ LET t == threads[w]
       IN  Step(w, Advance(IF t.tid # NoTask /\ upload_model(enabled, t.tf).uploaded
                           THEN Did(t, "upload") ELSE t))
    /\ UNCHANGED nops /\ KeepStores /\ OutsidePool

CloseTask(w) ==
    /\ At(w, "close")
    /\ LET t == threads[w]
       IN  Step(w, Advance(IF t.tid # NoTask /\ "close" \notin t.tf
                           THEN Did(t, "close") ELSE t))
    /\ UNCHANGED nops /\ KeepStores /\ OutsidePool

\* lines 195-201: self._metadata[model_name] = {...}
PutModelRecord(w) ==
    /\ At(w, "put")
    /\ LET t == threads[w]
       IN  /\ metadata' =
                [metadata EXCEPT ![Pool] =
                   PutRecord(@, t.name, ModelRecord(t.type, t.metrics, None, t.tid))]
           /\ Step(w, Advance(Did(t, "record")))
    /\ UNCHANGED <<nops, artifacts, metadata_file>> /\ OutsidePool

\* _save_metadata in three steps.  open(..., "w") truncates the file;
\* json.dump serializes the dict as it is at that moment into the file
\* object's buffer; leaving the with block flushes the buffer into the file
\* from offset 0.
MetaOpen(w) ==
    /\ At(w, "wopen")
    /\ metadata_file' = CorruptFile
    /\ Step(w, Advance(threads[w]))
    /\ UNCHANGED <<nops, artifacts, metadata>> /\ OutsidePool

MetaDump(w) ==
    /\ At(w, "wdump")
    /\ Step(w, Advance([threads[w] EXCEPT !.buffer = metadata[Pool]]))
    /\ UNCHANGED nops /\ KeepStores /\ OutsidePool

\* the length of the JSON text of a mapping, in records, and of what the file
\* holds (the longest text written into it since it was last truncated)
TextLen(md) == 1 + Cardinality(DOMAIN md)
FileLen(file) == IF file \in {NoFile, CorruptFile} THEN 0 ELSE TextLen(file.map)
\* text written from offset 0 over what the file holds: a longer text replaces
\* it, a shorter one leaves the tail of the old text behind it, and of two
\* texts with as many records either may be the longer
Flush(file, md) ==
    LET whole == [kind |-> "ok", map |-> md]
        mixed == [kind |-> "corrupt", map |-> file.map]
    IN  IF FileLen(file) = 0 \/ (file.kind = "ok" /\ file.map = md) THEN {whole}
        ELSE IF TextLen(md) > FileLen(file) THEN {whole}
        ELSE IF TextLen(md) < FileLen(file) THEN {mixed}
        ELSE {whole, mixed}

MetaClose(w) ==
    /\ At(w, "wclose")
    /\ \E f \in Flush(metadata_file, threads[w].buffer) : metadata_file' = f
    /\ Step(w, Advance(threads[w]))
    /\ UNCHANGED <<nops, artifacts, metadata>> /\ OutsidePool

\* delete_model, lines 269-271
DeleteExists(w) ==
    /\ At(w, "dexists")
    /\ LET t == threads[w]
       IN  Step(w, IF artifacts[t.name].kind = "none" THEN Raise(t, "NotFound")
                   ELSE Advance([t EXCEPT !.sawFile = TRUE]))
    /\ UNCHANGED nops /\ KeepStores /\ OutsidePool

\* line 273: Path.unlink raises FileNotFoundError when the file is gone
UnlinkArtifact(w) ==
    /\ At(w, "unlink")
    /\ LET t == threads[w]
       IN  IF artifacts[t.name].kind = "none"
           THEN /\ Step(w, Raise(t, "NotFound"))
                /\ UNCHANGED artifacts
           ELSE /\ artifacts' = [artifacts EXCEPT ![t.name] = NoUnit]
                /\ Touch(w, "unlink", Advance(t))
    /\ UNCHANGED <<nops, metadata_file, metadata>> /\ OutsidePool

\* lines 275-276: the record goes when there is one, and only then is the
\* file rewritten
DropRecord(w) ==
    /\ At(w, "del")
    /\ LET t == threads[w]
       IN  IF t.name \in DOMAIN metadata[Pool]
           THEN /\ metadata' = [metadata EXCEPT ![Pool] = DelRecord(@, t.name)]
                /\ Step(w, Advance(t))
           ELSE /\ Step(w, [t EXCEPT !.pc = "done", !.result = "ok"])
                /\ UNCHANGED metadata
    /\ UNCHANGED <<nops, artifacts, metadata_file>> /\ OutsidePool

\* load_model, lines 222-224
LoadExists(w) ==
    /\ At(w, "lexists")
    /\ LET t == threads[w]
       IN  Step(w, IF artifacts[t.name].kind = "none" THEN Raise(t, "NotFound")
                   ELSE Advance([t EXCEPT !.sawFile = TRUE]))
    /\ UNCHANGED nops /\ KeepStores /\ OutsidePool

\* BaseMLModel.load: joblib.load raises FileNotFoundError for a missing file
\* and an unpickling error for a file that holds no whole pickle
joblib_load_Internal(arts, n) ==
    IF arts[n].kind # "unit" THEN "LoadError" ELSE "ok"
joblib_load(arts, n) ==
    IF arts[n].kind = "none" THEN "NotFound"
    ELSE IF arts[n].kind = "corrupt" THEN "LoadError"
    ELSE "ok"

\* line 226
LoadArtifact(w) ==
    /\ At(w, "load")
    /\ LET t == threads[w]
           loaded == joblib_load(artifacts, t.name)
       IN  Step(w, IF loaded # "ok" THEN Raise(t, loaded)
                   ELSE Advance([t EXCEPT !.unit = artifacts[t.name]]))
    /\ UNCHANGED nops /\ KeepStores /\ OutsidePool

\* model.predict(df) on rows with the columns seen at fit time
RunPredict(w) ==
    /\ At(w, "predict")
    /\ LET t == threads[w]
           res == IF UnitPredict(t.unit) # "ok" THEN UnitPredict(t.unit)
                  ELSE estimator_predict(t.unit, RaceData.features)
       IN  Step(w, IF res # "ok" THEN Raise(t, res) ELSE Advance(t))
    /\ UNCHANGED nops /\ KeepStores /\ OutsidePool

\* the response leaves and the worker goes back to the pool
Finish(w) ==
    /\ At(w, "done")
    /\ Step(w, NoThread)
    /\ UNCHANGED nops /\ KeepStores /\ OutsidePool

InitRace ==
    /\ InitStores
    /\ enabled \in BOOLEAN
    /\ files = SeededDir
    /\ dvc_enabled = FALSE

NextRace ==
    \E w \in Workers :
        \/ Begin(w) \/ OpenTask(w) \/ Fit(w) \/ SaveOpen(w) \/ SaveDump(w)
        \/ PushMetrics(w) \/ UploadArtifact(w) \/ CloseTask(w)
        \/ PutModelRecord(w) \/ MetaOpen(w) \/ MetaDump(w) \/ MetaClose(w)
        \/ DeleteExists(w) \/ UnlinkArtifact(w) \/ DropRecord(w)
        \/ LoadExists(w) \/ LoadArtifact(w) \/ RunPredict(w) \/ Finish(w)

SpecRace == InitRace /\ [][NextRace]_vars

---------------------------------------------------------------------------
\* The unit under trial

UnitOnly ==
    UNCHANGED <<artifacts, metadata_file, metadata, enabled, lastCall, twin,
                deleted, nops, files, dvc_enabled, reply, threads>>

\* <Unit>.train(X, y): split, fit, is_trained = True, metrics on the test part
TrainUnit ==
    /\ trial.phase = "new"
    /\ IF train_test_split(trial.n) = {}
       THEN trial' = [trial EXCEPT !.phase = "failed", !.raised = "SplitError"]
       ELSE \E test \in train_test_split(trial.n) :
              LET train == RowsOf(trial.n) \ test
              IN  IF FitError(trial.type, trial.y, train)
                  THEN trial' = [trial EXCEPT !.phase = "failed", !.test = test,
                                              !.raised = "FitError"]
                  ELSE \E est \in Fitted(trial.n, trial.y, train) :
                         trial' = [trial EXCEPT
                                     !.phase = "trained", !.test = test,
                                     !.est = est, !.is_trained = TRUE,
                                     !.metrics = Metrics(trial.y, est, test)]
    /\ UnitOnly

\* <Unit>.predict(X[:k])
PredictRows ==
    /\ trial.phase \in {"trained", "failed"}
    /\ \E k \in 0..trial.n :
          LET p == IF ~trial.is_trained
                   THEN [raised |-> "NotTrained", labels |-> <<>>]
                   ELSE sklearn_predict(trial.est, k)
          IN  trial' = [trial EXCEPT !.phase = "predicted", !.k = k,
                                     !.raised = p.raised, !.labels = p.labels]
    /\ UnitOnly

\* a fresh unit of a registered type and a table of up to Rows rows
InitUnit ==
    /\ InitStores
    /\ enabled = FALSE
    /\ files = EmptyDir
    /\ dvc_enabled = FALSE

NewTrial ==
    /\ trial.phase = "none"
    /\ \E T \in MODEL_REGISTRY, n \in 1..Rows :
          \E y \in [RowsOf(n) -> Classes] :
             trial' = [NoTrial EXCEPT !.phase = "new", !.type = T, !.n = n, !.y = y]
    /\ UnitOnly

NextUnit == NewTrial \/ TrainUnit \/ PredictRows

SpecUnit == InitUnit /\ [][NextUnit]_vars

TypeOK ==
    /\ \A n \in ModelNames : artifacts[n].kind \in {"none", "corrupt", "unit"}
    /\ metadata_file.kind \in {"absent", "ok", "corrupt"}
    /\ \A i \in Instances : DOMAIN metadata[i] \subseteq ModelNames
    /\ nops \in 0..MaxOps

---------------------------------------------------------------------------
\* Properties

\* C1 (as claimed): one orchestrator, calls one after another, empty stores at
\* the start: after every completed call, failed or not, a name has a
\* ModelRecord exactly when it has an artifact file.
C1_RecordIffArtifact ==
    \A n \in ModelNames :
        (n \in DOMAIN metadata["http"]) <=> (artifacts[n].kind # "none")

\* C2: a name deleted successfully through an orchestrator is absent from that
\* orchestrator's list() and predict on it fails with NotFound, for as long as
\* no train or retrain call has written an artifact for the name again.
C2_DeletedStaysGone ==
    \A i \in Instances : \A n \in deleted[i] :
        /\ n \notin list_models(metadata[i])
        /\ predict(artifacts, n) = "NotFound"

C2_Witness ==
    /\ lastCall.op = "predict"
    /\ lastCall.name \in deleted[lastCall.inst]
    /\ lastCall.result = "NotFound"

\* C3: a train call whose type is no key of the registry fails with
\* UnknownCapability, opens no tracked run, and leaves the artifact files, the
\* metadata file and the in-memory metadata as they were.
C3_UnknownTypeRejected ==
    [][ (lastCall'.op = "train" /\ lastCall'.type \notin MODEL_REGISTRY)
        => /\ lastCall'.result = "UnknownCapability"
           /\ ~lastCall'.opened
           /\ lastCall'.tid = NoTask
           /\ artifacts' = artifacts
           /\ metadata_file' = metadata_file
           /\ metadata' = metadata ]_vars

C3_Witness ==
    /\ lastCall.op = "train"
    /\ lastCall.result = "UnknownCapability"
    /\ enabled
    /\ DOMAIN metadata["http"] # {}

\* C4 (as claimed): after a successful train of type T with overrides H the
\* record's hyperparameters are the effective values, T's defaults merged
\* with H.
C4_RecordHoldsEffective ==
    (lastCall.op = "train" /\ lastCall.result = "ok")
    => metadata[lastCall.inst][lastCall.name].hyperparameters
         = DictUpdate(get_default_hyperparameters(lastCall.type), OrEmpty(lastCall.hp))

\* C4 (amended): after a successful train of type T with overrides H the
\* record's hyperparameters are exactly H as supplied (the empty mapping when
\* none was supplied), and so are the unit's; the estimator inside the unit is
\* built with T's defaults merged with H, every default key present and
\* explicit values winning.
C4_RecordHoldsOverrides ==
    (lastCall.op = "train" /\ lastCall.result = "ok")
    => LET H == OrEmpty(lastCall.hp)
           D == get_default_hyperparameters(lastCall.type)
           rec == metadata[lastCall.inst][lastCall.name]
           unit == artifacts[lastCall.name]
       IN  /\ rec.hyperparameters = H
           /\ unit.hyperparameters = H
           /\ unit.params = DictUpdate(D, H)
           /\ Keys(D) \subseteq Keys(unit.params)
           /\ H \subseteq unit.params

C4_Witness ==
    /\ lastCall.op = "train"
    /\ lastCall.result = "ok"
    /\ lastCall.hp = Some({<<"n_estimators", "10">>})
    /\ <<"n_estimators", "10">> \in artifacts[lastCall.name].params

\* C5: with tracking enabled, a train call in which a tracking step fails
\* (and nothing else does: registered type, accepted hyperparameters, data the
\* fit accepts, both writes going through) succeeds: the artifact holds the
\* trained unit, the record is written, the metrics are returned.
C5_TrackingFailureHarmless ==
    ( /\ enabled
      /\ lastCall.op = "train"
      /\ lastCall.env.tf # {}
      /\ lastCall.env.so = "ok" /\ lastCall.env.mo = "ok"
      /\ lastCall.type \in MODEL_REGISTRY
      /\ Keys(OrEmpty(lastCall.hp))
            \subseteq Keys(get_default_hyperparameters(lastCall.type))
      /\ lastCall.data.id # "bad" )
    => /\ lastCall.result = "ok"
       /\ lastCall.metrics # NoMetrics
       /\ artifacts[lastCall.name].kind = "unit"
       /\ artifacts[lastCall.name].type = lastCall.type
       /\ artifacts[lastCall.name].is_trained
       /\ lastCall.name \in DOMAIN metadata[lastCall.inst]
       /\ metadata[lastCall.inst][lastCall.name].metrics = lastCall.metrics
       /\ metadata_file = [kind |-> "ok", map |-> metadata[lastCall.inst]]

C5_Witness ==
    /\ enabled
    /\ lastCall.op = "train"
    /\ lastCall.env.tf = {"upload"}
    /\ lastCall.result = "ok"
    /\ ~lastCall.uploaded

\* C6: a train or retrain call and the same call made from the same stores
\* with the tracking channel disabled agree on success or failure, on the
\* metrics, on every artifact file and on every record but for its tracking
\* id.  The id is absent, in the return value and in the record, when the
\* channel is disabled or the run cannot be opened, and present otherwise.
StripTrackingId(md) ==
    [k \in DOMAIN md |->
        [type |-> md[k].type, metrics |-> md[k].metrics,
         hyperparameters |-> md[k].hyperparameters]]

C7_RetrainMissingRejected ==
    [][ (lastCall'.op = "retrain"
         /\ lastCall'.name \notin DOMAIN metadata[lastCall'.inst])
        => /\ lastCall'.result = "NotFound"
           /\ lastCall'.metrics = NoMetrics
           /\ ~lastCall'.opened
           /\ artifacts' = artifacts
           /\ metadata_file' = metadata_file
           /\ metadata' = metadata ]_vars

C7_Witness ==
    /\ lastCall.op = "retrain"
    /\ lastCall.result = "NotFound"
    /\ enabled
    /\ lastCall.data.id # "bad"
    /\ artifacts[lastCall.name].kind # "none"

\* C8: a successful retrain writes a record with the prior record's type;
\* its hyperparameters are the prior record's when the call supplies none and
\* the supplied ones when it supplies some (an empty mapping included).
C8_RetrainCarriesOver ==
    [][ (lastCall'.op = "retrain" /\ lastCall'.result = "ok")
        => LET i == lastCall'.inst
               n == lastCall'.name
           IN  /\ metadata'[i][n].type = metadata[i][n].type
               /\ artifacts'[n].type = metadata[i][n].type
               /\ metadata'[i][n].hyperparameters =
                    (IF lastCall'.hp.given THEN lastCall'.hp.kv
                     ELSE metadata[i][n].hyperparameters) ]_vars

C8_Witness ==
    /\ lastCall.op = "retrain"
    /\ lastCall.result = "ok"
    /\ ~lastCall.hp.given
    /\ metadata[lastCall.inst][lastCall.name].hyperparameters # {}
    /\ nops >= 3

\* C9 (as claimed): delete on a name that has a record but no artifact file
\* succeeds and removes the record; delete fails with NotFound only when the
\* name has neither an artifact nor a record.
C9_DeleteRemovesOrphanRecord ==
    (lastCall.op = "delete")
    => /\ (lastCall.hadRecord /\ ~lastCall.hadArtifact)
            => /\ lastCall.result = "ok"
               /\ lastCall.name \notin DOMAIN metadata[lastCall.inst]
       /\ (lastCall.result = "NotFound")
            => (~lastCall.hadRecord /\ ~lastCall.hadArtifact)

\* C10: no artifact file holds an untrained unit, and predict on a stored
\* model never fails with NotTrained.
C10_StoredUnitsTrained ==
    \A n \in ModelNames :
        /\ artifacts[n].kind = "unit" => artifacts[n].is_trained
        /\ predict(artifacts, n) # "NotTrained"
        /\ artifacts[n].kind = "unit" => predict(artifacts, n) = "ok"

C10_Witness ==
    /\ lastCall.op = "predict"
    /\ lastCall.result = "ok"
    /\ artifacts[lastCall.name].is_trained

\* C11 (as claimed): on both transports a train or retrain request whose
\* target column is not a column of the resolved dataset is answered as bad
\* input (400, INVALID_ARGUMENT) and the orchestrator is not invoked.
C11_MissingTargetIsBadInput ==
    ( /\ reply.op \in {"train", "retrain"}
      /\ load_dataset(files, reply.dataset).raised = ""
      /\ reply.target \notin load_dataset(files, reply.dataset).frame.columns )
    => /\ reply.status \in {"400", "INVALID_ARGUMENT"}
       /\ ~reply.invoked

\* C12 (as claimed): on both transports a train request that names an
\* unregistered model type is answered as bad input, not as not-found and not
\* as internal.
C12_UnknownTypeIsBadInput ==
    ( /\ reply.op = "train"
      /\ reply.invoked
      /\ lastCall.type \notin MODEL_REGISTRY )
    => Taxonomy(reply.status) = "InvalidInput"

\* C13 (as claimed): on both transports predict on an existing model with rows
\* whose column names differ from those seen at fit time is answered as a
\* caller error (InvalidInput), never as Internal.
C13_FeatureMismatchIsBadInput ==
    ( /\ reply.op = "predict"
      /\ artifacts[lastCall.name].kind = "unit"
      /\ reply.cols # artifacts[lastCall.name].data.features )
    => Taxonomy(reply.status) = "InvalidInput"

\* C14 (as claimed): on both transports a successful retrain reports the model
\* type stored in the record, the type that was retrained, whatever type the
\* request names.
C14_RetrainReportsRecordType ==
    ( /\ reply.op = "retrain"
      /\ lastCall.result = "ok" )
    => /\ reply.model_type = metadata[lastCall.inst][lastCall.name].type
       /\ reply.model_type = artifacts[lastCall.name].type

\* C15: after save of a name without extension, load of the name and load of
\* name.csv both succeed and return the table that was saved, whatever files
\* earlier saves and deletes left in the directory.
C15_LookupIgnoresExtension ==
    ( /\ reply.op = "save"
      /\ reply.raised = ""
      /\ Len(reply.dataset) = 1 )
    => LET bare == load_dataset(files, reply.dataset)
           full == load_dataset(files, WithExt(reply.dataset, "csv"))
       IN  /\ bare.raised = ""
           /\ full.raised = ""
           /\ bare.frame = full.frame
           /\ bare.frame = Frame(reply.content)

C15_Witness ==
    /\ reply.op = "save"
    /\ reply.raised = ""
    /\ reply.dataset = <<"d1">>
    /\ <<"d1", "json">> \in DOMAIN files
    /\ files[<<"d1", "json">>] # files[<<"d1", "csv">>]

\* C16: delete of a name no file resolves for fails with NotFound and leaves
\* the directory as it was; otherwise it removes the resolved file and the
\* file of the same name plus .dvc, and every other file stays as it was.
C16_DeleteRemovesFileAndSidecar ==
    [][ reply'.op = "delete_dataset"
        => LET f == find_dataset_file(files, reply'.dataset)
           IN  IF ~f.found
               THEN /\ reply'.raised = "DatasetNotFound"
                    /\ files' = files
               ELSE /\ reply'.raised = ""
                    /\ DOMAIN files' = DOMAIN files \ {f.path, dvc_file(f.path)}
                    /\ \A q \in DOMAIN files' : files'[q] = files[q] ]_vars

C16_Witness ==
    /\ reply.op = "delete_dataset"
    /\ reply.raised = ""
    /\ reply.lost = {<<"d1", "csv">>, <<"d1", "csv", "dvc">>}
    /\ {<<"d2", "csv">>, <<"d2", "csv", "dvc">>} \subseteq DOMAIN files

\* C17 (as claimed): list skips a file with a recognized extension that fails
\* to parse: it does not fail, and the files listed are exactly the parsable
\* ones.
C17_UnparsableSkipped ==
    reply.op = "list_datasets"
    => /\ reply.raised = ""
       /\ {info.name : info \in reply.infos}
            = {q \in Recognized(files) : Parses(files[q])}

\* C17 (amended): list does not fail and lists every file with a recognized
\* extension that is still there, a file that fails to parse with rows and
\* columns absent; only a file that was removed between the enumeration and
\* its lookup is skipped.
C17_UnparsableListedBare ==
    reply.op = "list_datasets"
    => /\ reply.raised = ""
       /\ {info.name : info \in reply.infos} = Recognized(files)
       /\ reply.lost \cap {info.name : info \in reply.infos} = {}
       /\ \A info \in reply.infos :
             /\ info.rows.given <=> Parses(files[info.name])
             /\ info.columns.given <=> Parses(files[info.name])

C17_Witness ==
    /\ reply.op = "list_datasets"
    /\ \E q \in Recognized(files) : ~Parses(files[q])
    /\ \E q \in Recognized(files) : Parses(files[q])
    /\ \E info \in reply.infos : ~info.rows.given

\* C18: the record of an existing file that cannot be parsed is produced, not
\* refused: rows and columns are absent, name, size and uploaded_at present.
C18_UnparsableRecordProduced ==
    ( /\ reply.op = "info"
      /\ find_dataset_file(files, reply.dataset).found
      /\ ~Parses(files[find_dataset_file(files, reply.dataset).path]) )
    => /\ reply.raised = ""
       /\ ~reply.info.rows.given
       /\ ~reply.info.columns.given
       /\ reply.info.name = find_dataset_file(files, reply.dataset).path
       /\ reply.info.size # ""
       /\ reply.info.uploaded_at # ""

C18_Witness ==
    /\ reply.op = "info"
    /\ reply.raised = ""
    /\ find_dataset_file(files, reply.dataset).found
    /\ files[find_dataset_file(files, reply.dataset).path] = Garbage

\* C19: a save whose table write succeeds leaves the data file and returns its
\* record whether the versioning tool is unavailable, add fails, push fails or
\* a step raises; push is started only after add returned true.
C19_SaveSurvivesVersioning ==
    ( /\ reply.op = "save"
      /\ reply.env.wo = "ok" )
    => LET path == SavePath(reply.dataset)
       IN  /\ reply.raised = ""
           /\ path \in DOMAIN files
           /\ files[path] = Frame(reply.content)
           /\ reply.info = get_dataset_info(files, path).info
           /\ reply.info.name = path
           /\ reply.info.rows.given
           /\ ~dvc_enabled => reply.trace = <<>>
           /\ (\E k \in DOMAIN reply.trace : reply.trace[k] = "push")
                => /\ reply.added
                   /\ reply.env.add = "zero"
                   /\ reply.trace = <<"add", "push">>

C19_Witness ==
    /\ reply.op = "save"
    /\ dvc_enabled
    /\ reply.env.add = "timeout"
    /\ reply.raised = ""
    /\ reply.trace = <<"add">>
    /\ reply.info.rows.given

\* C20: add, push and pull never raise; with the tool unavailable they return
\* false and do not start it; with it available they return true only when
\* the tool exits with zero, false on a timeout, a nonzero exit or any error.
C20_VersioningNeverRaises ==
    reply.op \in {"add", "push", "pull"}
    => /\ reply.raised = ""
       /\ ~dvc_enabled => (~reply.value /\ ~reply.started)
       /\ reply.value => (dvc_enabled /\ reply.started /\ reply.out = "zero")
       /\ reply.out # "zero" => ~reply.value

C20_Witness ==
    /\ reply.op = "add"
    /\ dvc_enabled
    /\ reply.started
    /\ reply.out = "timeout"
    /\ ~reply.value

\* C22 (as claimed): at no point of a train, retrain or delete, a failed or
\* interrupted one included, does the metadata store, in memory or on disk,
\* hold a record whose artifact file is missing.
C22_NoOrphanedMetadata ==
    \A n \in ModelNames :
        (n \in DOMAIN metadata["http"] \/ n \in DOMAIN load_metadata(metadata_file))
        => artifacts[n].kind # "none"

\* C24 (as claimed): every mutation leaves the metadata file holding either
\* the complete mapping from before it or the complete mapping from after it,
\* also when the write fails in the middle.
C24_MetadataRewrittenAtomically ==
    [][ \/ metadata_file' = metadata_file
        \/ metadata_file' = [kind |-> "ok", map |-> metadata'["http"]] ]_vars

\* C26 (as claimed): when the unit's training or the artifact persistence
\* fails during train or retrain, no record is written or changed, and the
\* artifact and the record already stored under the name stay as they were.
C26_FailedTrainChangesNothing ==
    [][ ( /\ lastCall'.op \in {"train", "retrain"}
          /\ lastCall'.result \in {"FitError", "SaveError"} )
        => /\ metadata' = metadata
           /\ metadata_file' = metadata_file
           /\ artifacts[lastCall'.name].kind # "none"
                => artifacts'[lastCall'.name] = artifacts[lastCall'.name] ]_vars

\* C27 (as claimed): every tracked run a train call opens is closed by the
\* time the call returns or fails.
C27_OpenedRunIsClosed ==
    ( /\ lastCall.op \in {"train", "retrain"}
      /\ lastCall.opened )
    => lastCall.closed

\* C29 (as claimed): with one orchestrator behind each transport over the same
\* models directory, a successful train or delete through one of them removes
\* from the metadata file no record of another name, and leaves in the file no
\* record whose artifact is gone.
C29_InstancesKeepEachOthersRecords ==
    [][ ( /\ lastCall'.op \in {"train", "delete"}
          /\ lastCall'.result = "ok" )
        => /\ \A n \in DOMAIN load_metadata(metadata_file) \ {lastCall'.name} :
                 n \in DOMAIN load_metadata(metadata_file')
           /\ \A n \in DOMAIN load_metadata(metadata_file') :
                 artifacts'[n].kind # "none" ]_vars

\* C30 (as claimed): after a dataset delete of a name succeeds, load of that
\* name fails with NotFound, whatever saves and deletes came before, a name
\* saved both as CSV and as JSON included.
C30_DeletedDatasetStaysGone ==
    ( /\ reply.op = "delete_dataset"
      /\ reply.raised = "" )
    => load_dataset(files, reply.dataset).raised = "DatasetNotFound"

\* the place of a step in the order C23 states
StepRank(step) ==
    CASE step = "open" -> 1 [] step = "fit" -> 2 [] step = "persist" -> 3
      [] step = "push" -> 4 [] step = "upload" -> 5 [] step = "close" -> 6
      [] step = "record" -> 7
Happened(t) == {t.trace[k] : k \in 1..Len(t.trace)}

\* C23: in a train with tracking active the steps take place in the order run
\* opened, unit fitted with its metrics, artifact persisted, metrics pushed,
\* artifact uploaded, run closed, ModelRecord written: at no moment has a
\* worker taken a later step before an earlier one (so neither the record nor
\* the upload precedes the persisted artifact), a successful tracked train has
\* opened, fitted, persisted and recorded, and when the backend fails at no
\* step it has taken all seven.
C23_TrainStepsInOrder ==
    \A w \in Workers :
        LET t == threads[w]
        IN  /\ \A i, j \in 1..Len(t.trace) :
                  i < j => StepRank(t.trace[i]) < StepRank(t.trace[j])
            /\ (t.op = "train" /\ t.pc = "done" /\ t.result = "ok" /\ t.tid # NoTask)
               => /\ {"open", "fit", "persist", "record"} \subseteq Happened(t)
                  /\ t.tf = {} => t.trace = <<"open", "fit", "persist", "push",
                                             "upload", "close", "record">>
C23_Witness ==
    \E w \in Workers :
        /\ threads[w].op = "train" /\ threads[w].pc = "done"
        /\ threads[w].result = "ok" /\ threads[w].tid # NoTask
        /\ threads[w].tf = {}
        /\ Len(threads[w].trace) = 7
        /\ artifacts[threads[w].name].kind = "unit"

\* C25: a predict of a name that overlaps nothing but a delete of that name
\* on the same orchestrator returns predictions or fails with NotFound.
C25_PredictRacingDelete ==
    \A w \in Workers :
        ( /\ threads[w].op = "predict" /\ threads[w].pc = "done"
          /\ threads[w].overlap = {"delete"} )
        => threads[w].result \in {"ok", "NotFound"}
\* the delete struck between the existence check and the load
C25_Witness ==
    \E w \in Workers :
        /\ threads[w].op = "predict" /\ threads[w].pc = "done"
        /\ threads[w].overlap = {"delete"}
        /\ threads[w].sawFile
        /\ threads[w].result = "NotFound"

\* C28 (as claimed): two trains for different names that overlap on one
\* orchestrator and both return successfully leave both records, each with
\* its own call's type, metrics and task id, in the in-memory metadata and in
\* the metadata file.
C28_ConcurrentTrainsBothRecorded ==
    \A w, v \in Workers :
        ( /\ w # v
          /\ threads[w].op = "train" /\ threads[v].op = "train"
          /\ threads[w].pc = "done" /\ threads[v].pc = "done"
          /\ threads[w].result = "ok" /\ threads[v].result = "ok"
          /\ threads[w].name # threads[v].name )
        => \A u \in {w, v} :
              LET t == threads[u]
                  rec == ModelRecord(t.type, t.metrics, None, t.tid)
              IN  /\ t.name \in DOMAIN metadata[Pool]
                  /\ metadata[Pool][t.name] = rec
                  /\ t.name \in DOMAIN load_metadata(metadata_file)
                  /\ load_metadata(metadata_file)[t.name] = rec

\* what C21 says of the train of a unit: trained flag set, the four metrics
\* present and each within [0,1]
TrainedWithMetrics ==
    /\ trial.is_trained
    /\ DOMAIN trial.metrics = {"accuracy", "precision", "recall", "f1"}
    /\ \A key \in DOMAIN trial.metrics : InUnitInterval(trial.metrics[key])
\* and of the predict that follows: k labels, each a class of the training target
KLabelsOfTarget ==
    /\ trial.raised = ""
    /\ Len(trial.labels) = trial.k
    /\ \A i \in 1..Len(trial.labels) :
          trial.labels[i] \in ClassesOf(trial.y, RowsOf(trial.n))

\* C21 (as claimed): for every registered type a successful train sets the
\* trained flag and returns the metrics accuracy, precision, recall and f1,
\* each within [0,1], and predict on k rows of the training features then
\* returns exactly k labels, each a class of the training target, for every k.
C21_TrainThenPredictAnyK ==
    /\ trial.phase = "trained" => TrainedWithMetrics
    /\ (trial.phase = "predicted" /\ trial.is_trained)
       => TrainedWithMetrics /\ KLabelsOfTarget

\* C21 (amended): the same for k >= 1; predict on no rows raises a
\* validation error instead of returning no labels.
C21_TrainThenPredict ==
    /\ trial.phase = "trained" => TrainedWithMetrics
    /\ (trial.phase = "predicted" /\ trial.is_trained)
       => /\ TrainedWithMetrics
          /\ trial.k >= 1 => KLabelsOfTarget
          /\ trial.k = 0 => trial.raised = "EmptyInput"
C21_Witness ==
    /\ trial.phase = "predicted" /\ trial.is_trained
    /\ trial.type = "LogisticRegression"
    /\ trial.k >= 2 /\ Len(trial.labels) = trial.k
    /\ trial.metrics["accuracy"] = Q(1, 2)
    /\ trial.metrics["precision"][1] > 0
    /\ trial.metrics["precision"][1] < trial.metrics["precision"][2]

====
